---- MODULE Spec2Model ----
(***************************************************************************)
(* EnvironmentSecretFile (src/src/secret.rs): a configuration source that  *)
(* scans the environment for variables naming secret files, loads each     *)
(* file and attaches its content to the result map.                        *)
(*                                                                         *)
(* Strings are sequences of one-character strings, so that lower-casing,   *)
(* prefix/suffix tests, slicing, replacement and formatting are computed   *)
(* character by character as the code computes them.  Option<T> is a       *)
(* record [some, v].                                                       *)
(***************************************************************************)
EXTENDS Integers, Sequences, FiniteSets, TLC

VARIABLES self, env, idx, m, error, loads, writes, last, pc, result

vars == <<self, env, idx, m, error, loads, writes, last, pc, result>>

-----------------------------------------------------------------------------
(* Bounds and alphabets                                                    *)

\* Largest number of variables in an environment of the iteration family.
MaxEnv == 2

Uppers == <<"A","B","C","D","E","F","G","H","I","J","K","L","M","N","O","P","Q","R","S","T","U","V","W","X","Y","Z">>
Lowers == <<"a","b","c","d","e","f","g","h","i","j","k","l","m","n","o","p","q","r","s","t","u","v","w","x","y","z">>

-----------------------------------------------------------------------------
(* String primitives of the standard library used by collect               *)

\* The lower-case letter of each upper-case letter.
LowerTable ==
  [c \in {Uppers[i] : i \in 1..Len(Uppers)} |->
     Lowers[CHOOSE i \in 1..Len(Uppers) : Uppers[i] = c]]

\* char::to_lowercase on the ASCII range
LowerChar(c) == IF c \in DOMAIN LowerTable THEN LowerTable[c] ELSE c

\* str::to_lowercase
ToLowercase(s) == [i \in 1..Len(s) |-> LowerChar(s[i])]

\* str::starts_with
StartsWith(s, p) == Len(p) <= Len(s) /\ SubSeq(s, 1, Len(p)) = p

\* str::ends_with
EndsWith(s, p) == Len(p) <= Len(s) /\ SubSeq(s, Len(s) - Len(p) + 1, Len(s)) = p

\* str::replace(from, to): non-overlapping matches, left to right
RECURSIVE Replace(_, _, _)
Replace(s, from, to) ==
  IF Len(s) < Len(from) \/ Len(from) = 0 THEN s
  ELSE IF StartsWith(s, from)
       THEN to \o Replace(SubSeq(s, Len(from) + 1, Len(s)), from, to)
       ELSE <<s[1]>> \o Replace(Tail(s), from, to)

\* String::is_empty
IsEmpty(s) == Len(s) = 0

-----------------------------------------------------------------------------
(* Option<String>                                                          *)

None == [some |-> FALSE, v |-> <<>>]
Some(s) == [some |-> TRUE, v |-> s]

-----------------------------------------------------------------------------
(* The builder                                                             *)

Default ==
  [prefix |-> None, prefix_separator |-> None, suffix |-> None,
   suffix_separator |-> None, separator |-> None, keep_prefix |-> FALSE]

with_prefix(s) == [Default EXCEPT !.prefix = Some(s)]
prefix(this, s) == [this EXCEPT !.prefix = Some(s)]
prefix_separator(this, s) == [this EXCEPT !.prefix_separator = Some(s)]
suffix(this, s) == [this EXCEPT !.suffix = Some(s)]
suffix_separator(this, s) == [this EXCEPT !.suffix_separator = Some(s)]
separator(this, s) == [this EXCEPT !.separator = Some(s)]
keep_prefix(this, keep) == [this EXCEPT !.keep_prefix = keep]

-----------------------------------------------------------------------------
(* The patterns collect derives from the configuration                     *)

\* self.separator.as_deref().unwrap_or("")
Separator(this) == IF this.separator.some THEN this.separator.v ELSE <<>>

PrefixSeparator(this) ==
  IF this.prefix_separator.some THEN this.prefix_separator.v
  ELSE IF this.separator.some THEN this.separator.v
  ELSE <<"_">>

\* Faulty variant: the suffix separator is taken to be the prefix separator.
SuffixSeparator_shared(this) ==
  IF this.prefix_separator.some THEN this.prefix_separator.v
  ELSE IF this.separator.some THEN this.separator.v
  ELSE <<"_">>

SuffixSeparator(this) ==
  IF this.suffix_separator.some THEN this.suffix_separator.v
  ELSE IF this.separator.some THEN this.separator.v
  ELSE <<"_">>

PrefixPattern(this) ==
  IF this.prefix.some
  THEN Some(ToLowercase(this.prefix.v \o PrefixSeparator(this)))
  ELSE None

Suffix(this) == IF this.suffix.some THEN this.suffix.v ELSE <<"F","I","L","E">>

SuffixPattern(this) == ToLowercase(SuffixSeparator(this) \o Suffix(this))

FullPattern(this) ==
  IF this.prefix.some
  THEN IF PrefixSeparator(this) = SuffixSeparator(this)
       THEN ToLowercase(this.prefix.v \o PrefixSeparator(this) \o Suffix(this))
       ELSE this.prefix.v \o Suffix(this)
  ELSE Suffix(this)

-----------------------------------------------------------------------------
(* Values of the result map                                                *)

\* Map::new()
EmptyMap == [k \in {} |-> 0]

\* Faulty variant: an existing key keeps its first value.
Insert_keepFirst(map, k, v) ==
  [x \in (DOMAIN map) \cup {k} |-> IF x \in DOMAIN map THEN map[x] ELSE v]

\* Map::insert: the value of an existing key is replaced
Insert(map, k, v) ==
  [x \in (DOMAIN map) \cup {k} |-> IF x = k THEN v ELSE map[x]]

\* A value loaded from a file: its origin is the file it came from.
Scalar(origin, x) == [origin |-> origin, kind |-> "scalar", scalar |-> x, table |-> {}]

\* ValueKind::Table(map): the entries of the wrapped map
TableOf(map) == {<<k, map[k].origin, map[k].scalar>> : k \in DOMAIN map}

\* Value::new(Some(&uri), ValueKind::Table(map))
Table(uri, map) == [origin |-> uri, kind |-> "table", scalar |-> "", table |-> TableOf(map)]

\* format!("secret:{}:{}", key, value)
Uri(key, value) == <<"s","e","c","r","e","t",":">> \o key \o <<":">> \o value

-----------------------------------------------------------------------------
(* The Document Loader: File::from(path).collect().  The files on disk are *)
(* an input of collect; two files parse (with one top-level key in common) *)
(* and every other path fails with an error naming the path.  Paths that   *)
(* differ only in letter case are different files.                         *)

PathG == <<"/","G">>
Pathg == <<"/","g">>
PathN == <<"/","N">>
Pathn == <<"/","n">>

NoError == [some |-> FALSE, v |-> [msg |-> "", path |-> <<>>]]
SomeError(e) == [some |-> TRUE, v |-> e]

FileCollect(path) ==
  IF path = PathG
  THEN [ok |-> TRUE, err |-> NoError.v,
        map |-> (<<"b">> :> Scalar(path, "b-of-G") @@ <<"s">> :> Scalar(path, "s-of-G"))]
  ELSE IF path = Pathg
  THEN [ok |-> TRUE, err |-> NoError.v,
        map |-> (<<"b">> :> Scalar(path, "b-of-g") @@ <<"r">> :> Scalar(path, "r-of-g"))]
  ELSE [ok |-> FALSE, err |-> [msg |-> "cannot load", path |-> path], map |-> EmptyMap]

-----------------------------------------------------------------------------
(* The closure collect runs on every environment variable.  st is the      *)
(* state the closure captures: m and error, with the history of loader     *)
(* invocations (loads), of insertions (writes) and the branch taken (last).*)

\* Faulty variant: the iteration goes on after an error.
StopOnError_never(err) == FALSE

\* if let Some(_) = error.as_ref() { return; }
StopOnError(err) == err.some

\* Faulty variant: an empty value is examined like any other.
TreatAsUnset_never(value) == FALSE

\* if value.is_empty() { return; }: an empty variable is treated as unset
TreatAsUnset(value) == IsEmpty(value)

\* for (key, value) in map.into_iter() { m.insert(key, value); }
RECURSIVE InsertAll(_, _)
InsertAll(map, loaded) ==
  IF DOMAIN loaded = {} THEN map
  ELSE LET k == CHOOSE x \in DOMAIN loaded : TRUE
       IN InsertAll(Insert(map, k, loaded[k]),
                    [x \in (DOMAIN loaded) \ {k} |-> loaded[x]])

\* Faulty variant: with keep_prefix the prefix is not checked.
CheckPrefix_keptUnchecked(this, key) ==
  LET prefix_pattern == PrefixPattern(this) IN
  IF prefix_pattern.some /\ ~this.keep_prefix
  THEN IF StartsWith(key, prefix_pattern.v)
       THEN Some(SubSeq(key, Len(prefix_pattern.v) + 1, Len(key)))
       ELSE None
  ELSE Some(key)

\* The prefix check: Some(key) to go on with, None to skip the variable.
CheckPrefix(this, key) ==
  LET prefix_pattern == PrefixPattern(this) IN
  IF prefix_pattern.some
  THEN IF StartsWith(key, prefix_pattern.v)
       THEN IF ~this.keep_prefix
            THEN Some(SubSeq(key, Len(prefix_pattern.v) + 1, Len(key)))
            ELSE Some(key)
       ELSE None
  ELSE Some(key)

\* Faulty variant: the suffix is removed but its separator is left on the key.
CheckSuffix_keepsSeparator(this, key) ==
  LET suffix_pattern == SuffixPattern(this) IN
  IF EndsWith(key, suffix_pattern)
  THEN Some(SubSeq(key, 1, Len(key) - Len(Suffix(this))))
  ELSE None

\* The suffix check: Some(key) without the suffix, None to skip the variable.
CheckSuffix(this, key) ==
  LET suffix_pattern == SuffixPattern(this) IN
  IF EndsWith(key, suffix_pattern)
  THEN Some(SubSeq(key, 1, Len(key) - Len(suffix_pattern)))
  ELSE None

\* Faulty variant: the separator is not translated.
Translate_off(this, key) == key

\* if !separator.is_empty() { key = key.replace(separator, "."); }
Translate(this, key) ==
  IF ~IsEmpty(Separator(this)) THEN Replace(key, Separator(this), <<".">>) ELSE key

Skip(st, why) == [st EXCEPT !.last = [cls |-> why, key |-> <<>>]]

Load(st, i, value, cls, key) ==
  LET map == FileCollect(value) IN
  IF map.ok
  THEN [m      |-> IF cls = "full" THEN InsertAll(st.m, map.map)
                   ELSE Insert(st.m, key, Table(Uri(key, value), map.map)),
        error  |-> st.error,
        loads  |-> Append(st.loads, [i |-> i, path |-> value, ok |-> TRUE]),
        writes |-> Append(st.writes,
                     [i |-> i, keys |-> IF cls = "full" THEN DOMAIN map.map ELSE {key}]),
        last   |-> [cls |-> cls, key |-> key]]
  ELSE [m      |-> st.m,
        error  |-> SomeError(map.err),
        loads  |-> Append(st.loads, [i |-> i, path |-> value, ok |-> FALSE]),
        writes |-> st.writes,
        last   |-> [cls |-> cls, key |-> key]]

Closure(this, st, i, var) ==
  IF StopOnError(st.error) THEN Skip(st, "stopped")
  ELSE IF TreatAsUnset(var.value) THEN Skip(st, "empty")
  ELSE LET key == ToLowercase(var.name) IN
       IF key = FullPattern(this) THEN Load(st, i, var.value, "full", <<>>)
       ELSE LET afterPrefix == CheckPrefix(this, key) IN
            IF ~afterPrefix.some THEN Skip(st, "prefix")
            ELSE LET afterSuffix == CheckSuffix(this, afterPrefix.v) IN
                 IF ~afterSuffix.some THEN Skip(st, "suffix")
                 ELSE Load(st, i, var.value, "nested", Translate(this, afterSuffix.v))

\* The captured state when the iteration starts.
Start ==
  [m |-> EmptyMap, error |-> NoError, loads |-> <<>>, writes |-> <<>>,
   last |-> [cls |-> "start", key |-> <<>>]]

\* Faulty variant: the map built so far is returned whatever happened.
Outcome_partial(st) == [ok |-> TRUE, map |-> st.m, err |-> NoError.v]

\* match error { Some(err) => Err(err), None => Ok(m) }
Outcome(st) ==
  IF st.error.some
  THEN [ok |-> FALSE, map |-> EmptyMap, err |-> st.error.v]
  ELSE [ok |-> TRUE, map |-> st.m, err |-> NoError.v]

\* env::vars().for_each(closure) as a function of the environment
RECURSIVE ForEachFrom(_, _, _, _)
ForEachFrom(this, st, e, i) ==
  IF i > Len(e) THEN st
  ELSE ForEachFrom(this, Closure(this, st, i, e[i]), e, i + 1)

\* collect as a function of the configuration and the environment
Collect(this, e) == Outcome(ForEachFrom(this, Start, e, 1))

-----------------------------------------------------------------------------
(* Inputs: configurations built with the builder, and environments.        *)

FILE == <<"F","I","L","E">>
SECRET == <<"S">>
cC == <<"C">>
cB == <<"B">>
cA == <<"A">>
us == <<"_">>
dash == <<"-">>
dot == <<".">>

\* A configuration as a chain of builder calls; None leaves an option unset.
Build(p, ps, su, ss, se, keep) ==
  LET c1 == IF p.some THEN with_prefix(p.v) ELSE Default
      c2 == IF ps.some THEN prefix_separator(c1, ps.v) ELSE c1
      c3 == IF su.some THEN suffix(c2, su.v) ELSE c2
      c4 == IF ss.some THEN suffix_separator(c3, ss.v) ELSE c3
      c5 == IF se.some THEN separator(c4, se.v) ELSE c4
  IN IF keep THEN keep_prefix(c5, TRUE) ELSE c5

\* Every combination of the options, for the classification of one variable.
MatchConfigs ==
  { Build(p, ps, su, ss, se, keep) :
      p \in {None, Some(cC), Some(ToLowercase(cC))},
      ps \in {None, Some(dash), Some(dash \o us)},
      su \in {None, Some(ToLowercase(FILE)), Some(SECRET)},
      ss \in {None, Some(dash)},
      se \in {None, Some(us), Some(dot), Some(us \o us), Some(cB), Some(ToLowercase(cB))},
      keep \in BOOLEAN }

\* Configurations of the iteration family: prefix and keep_prefix.
IterConfigs ==
  { Build(p, None, None, None, None, keep) : p \in {None, Some(cC)}, keep \in BOOLEAN }

\* Variable names; each is also taken lower-cased.
BaseNames ==
  { cC \o us \o FILE,                                   \* C_FILE
    cC \o dot \o FILE,                                  \* C.FILE
    cC \o dash \o FILE,                                 \* C-FILE
    cC \o us \o us \o FILE,                             \* C__FILE
    cC \o FILE,                                         \* CFILE
    FILE,                                               \* FILE
    us \o FILE,                                         \* _FILE
    cB \o us \o FILE,                                   \* B_FILE
    cC \o us \o cB,                                     \* C_B
    cC \o us \o cB \o us \o FILE,                       \* C_B_FILE
    cC \o us \o cB \o us \o cA \o us \o FILE,           \* C_B_A_FILE
    cC \o dot \o cB \o dot \o cA \o dot \o FILE,        \* C.B.A.FILE
    cC \o dash \o cB \o dot \o cA \o dot \o FILE,       \* C-B.A.FILE
    cC \o dot \o cB \o dot \o cA \o dash \o FILE,       \* C.B.A-FILE
    cC \o dash \o us \o FILE,                           \* C-_FILE
    cC \o dash \o us \o us \o cA \o us \o us \o FILE,   \* C-__A__FILE
    cC \o us \o us \o cB \o us \o us \o cA \o us \o us \o FILE,  \* C__B__A__FILE
    cC \o us \o us \o us \o us \o us \o cA \o us \o us \o FILE,  \* C_____A__FILE
    cC \o ToLowercase(cB) \o cB \o ToLowercase(cB) \o FILE,  \* CbBbFILE
    cC \o cB \o cA \o cB \o cA \o cB \o FILE,      \* CBABABFILE
    cC \o us \o SECRET,                                 \* C_S
    cC \o us \o cB \o us \o SECRET,                     \* C_B_S
    <<"H","O","M","E">> }                               \* HOME

Names == BaseNames \cup {ToLowercase(n) : n \in BaseNames}

IterNames ==
  { cC \o us \o FILE, ToLowercase(cC \o us \o FILE), cC \o us \o cB \o us \o FILE,
    ToLowercase(cC \o us \o cB \o us \o FILE), <<"H","O","M","E">> }

\* Environments of one variable.
MatchEnvs == { <<[name |-> n, value |-> v]>> : n \in Names, v \in {<<>>, PathG, PathN} }

IterVars == [name : IterNames, value : {<<>>, PathG, Pathg, PathN, Pathn}]

\* Environments of up to MaxEnv variables; a name occurs once in an environment.
IterEnvs ==
  { e \in UNION { [1..n -> IterVars] : n \in 0..MaxEnv } :
      \A i, j \in DOMAIN e : i # j => e[i].name # e[j].name }

-----------------------------------------------------------------------------
(* collect as a state machine: one step of the iteration per variable.     *)

NoResult == [ok |-> FALSE, map |-> EmptyMap, err |-> NoError.v]

Init ==
  /\ \/ self \in MatchConfigs /\ env \in MatchEnvs
     \/ self \in IterConfigs /\ env \in IterEnvs
  /\ idx = 0
  /\ m = Start.m
  /\ error = Start.error
  /\ loads = Start.loads
  /\ writes = Start.writes
  /\ last = Start.last
  /\ pc = "for_each"
  /\ result = NoResult

Captured == [m |-> m, error |-> error, loads |-> loads, writes |-> writes, last |-> last]

\* The closure runs on the next variable of env::vars().
ForEach ==
  /\ pc = "for_each"
  /\ idx < Len(env)
  /\ LET st == Closure(self, Captured, idx + 1, env[idx + 1]) IN
       /\ m' = st.m
       /\ error' = st.error
       /\ loads' = st.loads
       /\ writes' = st.writes
       /\ last' = st.last
  /\ idx' = idx + 1
  /\ UNCHANGED <<self, env, pc, result>>

\* The iteration is over: collect returns.
Return ==
  /\ pc = "for_each"
  /\ idx = Len(env)
  /\ result' = Outcome(Captured)
  /\ pc' = "done"
  /\ UNCHANGED <<self, env, idx, m, error, loads, writes, last>>

Next == ForEach \/ Return

Spec == Init /\ [][Next]_vars

-----------------------------------------------------------------------------
(* Vocabulary of the properties                                            *)

UpperTable ==
  [c \in {Lowers[i] : i \in 1..Len(Lowers)} |->
     Uppers[CHOOSE i \in 1..Len(Lowers) : Lowers[i] = c]]

UpperChar(c) == IF c \in DOMAIN UpperTable THEN UpperTable[c] ELSE c

ToUppercase(s) == [i \in 1..Len(s) |-> UpperChar(s[i])]

\* Spellings of s that differ from it only in letter case.
CaseVariants(s) == {s, ToLowercase(s), ToUppercase(s)}

\* The loader would succeed on every non-empty value before position i.
EarlierLoad(i) ==
  \A j \in 1..(i - 1) : IsEmpty(env[j].value) \/ FileCollect(env[j].value).ok

\* The loader would succeed on every non-empty value of the environment.
EveryLoad == EarlierLoad(Len(env) + 1)

\* The variable the closure ran on last, when it was not stopped by an error.
Examined == idx >= 1 /\ last.cls # "stopped"

\* The environment without its i-th variable.
RemoveAt(e, i) == SubSeq(e, 1, i - 1) \o SubSeq(e, i + 1, Len(e))

\* The paths handed to the loader, in order, with the outcome of each.
Invocations(ls) == [a \in 1..Len(ls) |-> [path |-> ls[a].path, ok |-> ls[a].ok]]

-----------------------------------------------------------------------------
(* C1: a variable with a non-empty value whose name equals full_pattern    *)
(* case-insensitively (prefix+prefix_separator+suffix when the separators  *)
(* are equal, prefix+suffix when they differ, suffix alone without a       *)
(* prefix) and whose file loads makes collect return Ok with every         *)
(* top-level key of the file directly in the result.                       *)

C1_full_pattern(this) ==
  IF this.prefix.some
  THEN IF PrefixSeparator(this) = SuffixSeparator(this)
       THEN this.prefix.v \o PrefixSeparator(this) \o Suffix(this)
       ELSE this.prefix.v \o Suffix(this)
  ELSE Suffix(this)

\* C1: a full-pattern variable (any letter case) whose file loads merges the
\* file's top-level keys directly into the result of collect, which is Ok.
C1_FullPatternMergesFlat ==
  (pc = "done" /\ EveryLoad) =>
    \A i \in 1..Len(env) :
      ( /\ ~IsEmpty(env[i].value)
        /\ ToLowercase(env[i].name) = ToLowercase(C1_full_pattern(self)) )
      => /\ result.ok
         /\ DOMAIN FileCollect(env[i].value).map \subseteq DOMAIN result.map

-----------------------------------------------------------------------------
(* C2: with a prefix P and otherwise default settings, a variable named    *)
(* P_X_FILE (X non-empty, value non-empty, file loads) puts the key        *)
(* lower(X), or lower(P_X) with keep_prefix, in the result, holding a      *)
(* table of the loaded tree with origin secret:<key>:<value>.              *)

C2_Defaults(this) ==
  /\ this.prefix.some
  /\ ~this.prefix_separator.some /\ ~this.suffix.some
  /\ ~this.suffix_separator.some /\ ~this.separator.some

\* name is P_X_FILE with X non-empty
C2_Shape(this, name) ==
  /\ StartsWith(name, this.prefix.v \o us)
  /\ EndsWith(name, us \o FILE)
  /\ Len(name) > Len(this.prefix.v) + 1 + 5

C2_X(this, name) == SubSeq(name, Len(this.prefix.v) + 2, Len(name) - 5)

C2_Key(this, name) ==
  IF this.keep_prefix
  THEN ToLowercase(this.prefix.v \o us \o C2_X(this, name))
  ELSE ToLowercase(C2_X(this, name))

C2_Case ==
  /\ idx >= 1 /\ EarlierLoad(idx + 1)
  /\ C2_Defaults(self)
  /\ C2_Shape(self, env[idx].name)
  /\ ~IsEmpty(env[idx].value)

\* C2: P_X_FILE yields the key lower(X), or lower(P_X) with keep_prefix, holding
\* the table of the loaded tree with origin secret:<key>:<value>.
C2_DefaultPrefixedKey ==
  C2_Case =>
    LET key == C2_Key(self, env[idx].name)
        value == env[idx].value
        expected == Table(<<"s","e","c","r","e","t",":">> \o key \o <<":">> \o value,
                          FileCollect(value).map)
    IN /\ key \in DOMAIN m
       /\ m[key] = expected
       /\ (pc = "done" /\ idx = Len(env)) =>
            (result.ok /\ key \in DOMAIN result.map /\ result.map[key] = expected)

C2_Witness ==
  /\ C2_Case /\ pc = "done" /\ self.keep_prefix
  /\ env[idx].name = cC \o us \o cB \o us \o cA \o us \o FILE
  /\ <<"c","_","b","_","a">> \in DOMAIN result.map

-----------------------------------------------------------------------------
(* C3: a variable whose value is empty never causes a loader invocation    *)
(* and never adds a key, whatever its name: collect returns what it        *)
(* returns for the environment without that variable.                      *)

C3_EmptyValueIsUnset ==
  pc = "done" =>
    \A i \in 1..Len(env) :
      IsEmpty(env[i].value) =>
        /\ \A a \in 1..Len(loads) : loads[a].i # i
        /\ \A a \in 1..Len(writes) : writes[a].i # i
        /\ result = Collect(self, RemoveAt(env, i))
        /\ Invocations(loads)
             = Invocations(ForEachFrom(self, Start, RemoveAt(env, i), 1).loads)

C3_Witness ==
  /\ pc = "done" /\ result.ok /\ Len(env) = 2
  /\ IsEmpty(env[1].value) /\ ToLowercase(env[1].name) = FullPattern(self)
  /\ DOMAIN result.map = {<<"b">>}

-----------------------------------------------------------------------------
(* C4: collect returns Err exactly when the loader fails for a variable    *)
(* with a non-empty value that matches (full pattern or prefix/suffix);    *)
(* the error is the loader's error for the first such variable in          *)
(* iteration order and no tree is returned.  Skipped variables never make  *)
(* collect return Err.                                                     *)

\* name matches: it is the full pattern, or passes the prefix and suffix checks
C4_Matches(this, name) ==
  LET key == ToLowercase(name) IN
  \/ key = FullPattern(this)
  \/ /\ CheckPrefix(this, key).some
     /\ CheckSuffix(this, CheckPrefix(this, key).v).some

C4_Failing ==
  { i \in 1..Len(env) :
      /\ ~IsEmpty(env[i].value)
      /\ C4_Matches(self, env[i].name)
      /\ ~FileCollect(env[i].value).ok }

\* C4: Err exactly when a matched variable with a non-empty value fails to
\* load; the error is that of the first such variable and no map is returned.
C4_ErrIffFirstLoadFailure ==
  pc = "done" =>
    /\ (~result.ok) <=> (C4_Failing # {})
    /\ C4_Failing # {} =>
         LET first == CHOOSE i \in C4_Failing : \A j \in C4_Failing : i <= j
         IN /\ result.err = FileCollect(env[first].value).err
            /\ result.map = EmptyMap
    /\ C4_Failing = {} => result.map = m

C4_Witness ==
  /\ pc = "done" /\ ~result.ok /\ Len(writes) > 0 /\ m # EmptyMap
  /\ result.map = EmptyMap

-----------------------------------------------------------------------------
(* C5: matching is case-insensitive and never folds the value: variable    *)
(* names that differ only in letter case, under configurations whose       *)
(* prefix and suffix differ only in letter case, are classified the same   *)
(* way (full pattern, prefix/suffix with the same derived key, or skip),   *)
(* and the loader gets the value character for character.                  *)

C5_Configs(this) ==
  { [this EXCEPT !.prefix = p, !.suffix = su] :
      p \in (IF this.prefix.some
             THEN {Some(x) : x \in CaseVariants(this.prefix.v)} ELSE {None}),
      su \in {Some(x) : x \in CaseVariants(Suffix(this))} }

C5_Class(this, name, value) ==
  Closure(this, Start, 1, [name |-> name, value |-> value]).last

\* C5: every spelling of the name, under every spelling of prefix and suffix,
\* is classified like the variable itself; the loader gets the value unchanged.
C5_CaseInsensitiveMatching ==
  Examined =>
    /\ \A this \in C5_Configs(self), name \in CaseVariants(env[idx].name) :
         C5_Class(this, name, env[idx].value) = last
    /\ last.cls \in {"full", "nested"} => loads[Len(loads)].path = env[idx].value

-----------------------------------------------------------------------------
(* C6: the prefix separator and the suffix separator are resolved          *)
(* independently (explicit value, else separator, else "_"), and a         *)
(* variable named prefix+prefix_separator+M+suffix_separator+suffix (M     *)
(* non-empty) with keep_prefix false gets the key lower(M) with every      *)
(* occurrence of a non-empty separator replaced by ".".  C-B.A.FILE        *)
(* (prefix C, prefix_separator "-", separator ".") and C.B.A-FILE (prefix  *)
(* C, separator ".", suffix_separator "-") both give b.a.                  *)

C6_Resolved(explicit, sep) ==
  IF explicit.some THEN explicit.v ELSE IF sep.some THEN sep.v ELSE <<"_">>

C6_Head(this) == this.prefix.v \o C6_Resolved(this.prefix_separator, this.separator)

C6_Tail(this) == C6_Resolved(this.suffix_separator, this.separator) \o Suffix(this)

C6_Case ==
  /\ idx >= 1 /\ EarlierLoad(idx + 1)
  /\ self.prefix.some /\ ~self.keep_prefix
  /\ StartsWith(env[idx].name, C6_Head(self))
  /\ EndsWith(env[idx].name, C6_Tail(self))
  /\ Len(env[idx].name) > Len(C6_Head(self)) + Len(C6_Tail(self))
  /\ ~IsEmpty(env[idx].value)

C6_M == SubSeq(env[idx].name, Len(C6_Head(self)) + 1,
               Len(env[idx].name) - Len(C6_Tail(self)))

\* C6: the separators resolve independently and prefix+prefix_separator+M+
\* suffix_separator+suffix yields lower(M) with separator replaced by ".".
C6_IndependentSeparators ==
  /\ PrefixSeparator(self) = C6_Resolved(self.prefix_separator, self.separator)
  /\ SuffixSeparator(self) = C6_Resolved(self.suffix_separator, self.separator)
  /\ C6_Case =>
       LET sep == IF self.separator.some THEN self.separator.v ELSE <<>>
           key == IF Len(sep) > 0 THEN Replace(ToLowercase(C6_M), sep, <<".">>)
                  ELSE ToLowercase(C6_M)
       IN /\ last = [cls |-> "nested", key |-> key]
          /\ key \in DOMAIN m
          /\ m[key].kind = "table"
          /\ ( /\ self.prefix = Some(cC) /\ self.separator = Some(dot)
               /\ ~self.suffix.some
               /\ \/ /\ self.prefix_separator = Some(dash)
                     /\ ~self.suffix_separator.some
                     /\ env[idx].name = cC \o dash \o cB \o dot \o cA \o dot \o FILE
                  \/ /\ ~self.prefix_separator.some
                     /\ self.suffix_separator = Some(dash)
                     /\ env[idx].name = cC \o dot \o cB \o dot \o cA \o dash \o FILE )
             => key = <<"b", ".", "a">>

C6_Witness ==
  /\ C6_Case /\ pc = "done" /\ result.ok
  /\ self.prefix_separator = Some(dash) /\ self.separator = Some(dot)
  /\ ~self.suffix_separator.some
  /\ env[idx].name = cC \o dash \o cB \o dot \o cA \o dot \o FILE
  /\ DOMAIN result.map = {<<"b", ".", "a">>}

-----------------------------------------------------------------------------
(* C7: separator translation depends only on the segment structure.        *)

\* s occurs in x
Contains(x, s) ==
  \E q \in 1..(Len(x) - Len(s) + 1) : SubSeq(x, q, q + Len(s) - 1) = s

\* The lists of segments, none containing s, that joined by s give x.
RECURSIVE C7_Segments(_, _)
C7_Segments(x, s) ==
  (IF Contains(x, s) THEN {} ELSE {<<x>>})
  \cup UNION { { <<SubSeq(x, 1, q - 1)>> \o rest :
                   rest \in C7_Segments(SubSeq(x, q + Len(s), Len(x)), s) } :
               q \in { r \in 1..(Len(x) - Len(s) + 1) :
                         /\ SubSeq(x, r, r + Len(s) - 1) = s
                         /\ ~Contains(SubSeq(x, 1, r - 1), s) } }

\* seg1.seg2...segN, lower-cased
RECURSIVE C7_Dotted(_)
C7_Dotted(segs) ==
  IF Len(segs) = 1 THEN ToLowercase(segs[1])
  ELSE ToLowercase(segs[1]) \o <<".">> \o C7_Dotted(Tail(segs))

\* The separator the name is built with: the configured one, "_" by default.
C7_S == IF self.separator.some THEN self.separator.v ELSE <<"_">>

\* A prefix and at most a separator are configured; the variable is
\* prefix s seg1 s ... s segN s FILE with a non-empty value that loads.
C7_Case ==
  /\ idx >= 1 /\ EarlierLoad(idx + 1)
  /\ self.prefix.some /\ ~self.keep_prefix
  /\ ~self.prefix_separator.some /\ ~self.suffix.some /\ ~self.suffix_separator.some
  /\ Len(C7_S) > 0
  /\ StartsWith(env[idx].name, self.prefix.v \o C7_S)
  /\ EndsWith(env[idx].name, C7_S \o FILE)
  /\ Len(env[idx].name) >= Len(self.prefix.v) + 2 * Len(C7_S) + 4
  /\ ~IsEmpty(env[idx].value)

C7_Mid == SubSeq(env[idx].name, Len(self.prefix.v) + Len(C7_S) + 1,
                 Len(env[idx].name) - Len(C7_S) - 4)

(* C7 as claimed: for every non-empty separator s and every list of        *)
(* segments none of which contains s, the variable prefix s seg1 s ... s   *)
(* segN s FILE gets the key seg1.seg2...segN (lower-cased); with no        *)
(* separator configured the stripped key is used verbatim.                 *)
C7_AnySeparator ==
  C7_Case =>
    /\ last.cls = "nested"
    /\ self.separator.some =>
         \A segs \in C7_Segments(C7_Mid, C7_S) : last.key = C7_Dotted(segs)
    /\ ~self.separator.some => last.key = ToLowercase(C7_Mid)

(* C7 as amended: for every separator s of one character that lower-casing *)
(* leaves unchanged, and every list of segments none of which contains s   *)
(* once lower-cased, the variable prefix s seg1 s ... s segN s FILE gets   *)
(* the key seg1.seg2...segN (lower-cased); with no separator configured    *)
(* the stripped key is used verbatim.                                      *)
C7_OneCharacterSeparator ==
  C7_Case =>
    /\ last.cls = "nested"
    /\ (self.separator.some /\ Len(C7_S) = 1 /\ ToLowercase(C7_S) = C7_S) =>
         \A segs \in C7_Segments(C7_Mid, C7_S) :
           (\A a \in 1..Len(segs) : ~Contains(ToLowercase(segs[a]), C7_S))
             => last.key = C7_Dotted(segs)
    /\ ~self.separator.some => last.key = ToLowercase(C7_Mid)

C7_Witness ==
  /\ C7_Case /\ pc = "done" /\ result.ok
  /\ self.separator = Some(dot)
  /\ env[idx].name = cC \o dot \o cB \o dot \o cA \o dot \o FILE
  /\ <<cB, cA>> \in C7_Segments(C7_Mid, C7_S)
  /\ DOMAIN result.map = {<<"b", ".", "a">>}

-----------------------------------------------------------------------------
(* C8: fail-fast ordering: the loader is invoked in iteration order, at    *)
(* most once per variable, on the variable's value, and once an invocation *)
(* has failed no later variable causes an invocation or an insertion.      *)

C8_FailFast ==
  /\ \A a, b \in 1..Len(loads) : a < b => loads[a].i < loads[b].i
  /\ \A a \in 1..Len(loads) :
       /\ loads[a].i \in 1..idx
       /\ loads[a].path = env[loads[a].i].value
       /\ ~loads[a].ok =>
            /\ a = Len(loads)
            /\ \A w \in 1..Len(writes) : writes[w].i < loads[a].i
  /\ error.some <=> (Len(loads) > 0 /\ ~loads[Len(loads)].ok)

\* A variable that would load was reached after a failure and was left alone.
C8_Witness ==
  /\ idx = 2 /\ last.cls = "stopped"
  /\ ~IsEmpty(env[2].value) /\ FileCollect(env[2].value).ok
  /\ C4_Matches(self, env[2].name)
  /\ Len(loads) = 1 /\ loads[1].i = 1 /\ m = EmptyMap

-----------------------------------------------------------------------------
(* C9: last write wins in iteration order: when every load succeeds, the   *)
(* value at a key of the returned tree is the one written by the last      *)
(* variable, in iteration order, that writes that key.                     *)

\* What the i-th variable writes when it is the only variable.
C9_Alone(i) == Collect(self, <<env[i]>>).map

C9_Writers(k) == { i \in 1..Len(env) : k \in DOMAIN C9_Alone(i) }

\* C9: each key of the returned tree holds the value written by the last
\* variable, in iteration order, that writes it.
C9_LastWriteWins ==
  (pc = "done" /\ result.ok) =>
    /\ DOMAIN result.map = UNION { DOMAIN C9_Alone(i) : i \in 1..Len(env) }
    /\ \A k \in DOMAIN result.map :
         LET w == CHOOSE i \in C9_Writers(k) : \A j \in C9_Writers(k) : j <= i
         IN result.map[k] = C9_Alone(w)[k]

\* Two variables write the key b with different values.
C9_Witness ==
  /\ pc = "done" /\ result.ok /\ Len(env) = 2
  /\ C9_Writers(<<"b">>) = {1, 2}
  /\ C9_Alone(1)[<<"b">>] # C9_Alone(2)[<<"b">>]
  /\ C9_Alone(1)[<<"b">>].kind = "scalar"
  /\ C9_Alone(2)[<<"b">>].kind = "table"

-----------------------------------------------------------------------------
(* C10: keep_prefix and the set of matching variables.                     *)

C10_Flip(this) == [this EXCEPT !.keep_prefix = ~this.keep_prefix]

\* How the variable examined last is classified under the other setting.
C10_Other == Closure(C10_Flip(self), Start, 1, env[idx]).last

C10_Kept == IF self.keep_prefix THEN last ELSE C10_Other

C10_Stripped == IF self.keep_prefix THEN C10_Other ELSE last

C10_Loaded(c) == c.cls \in {"full", "nested"}

C10_BothNested == C10_Kept.cls = "nested" /\ C10_Stripped.cls = "nested"

(* C10 as claimed: keep_prefix changes only the derived key, never which   *)
(* variables match: the same variables are loaded with keep_prefix true    *)
(* and false, and for a prefix/suffix-matched variable the key with        *)
(* keep_prefix true is the separator-translated prefix_pattern followed by *)
(* the key with keep_prefix false.                                         *)
C10_KeepPrefixOnlyChangesKey ==
  (Examined /\ ~IsEmpty(env[idx].value)) =>
    /\ C10_Loaded(C10_Kept) <=> C10_Loaded(C10_Stripped)
    /\ (C10_BothNested /\ self.prefix.some) =>
         C10_Kept.key = Translate(self, PrefixPattern(self).v) \o C10_Stripped.key
    /\ ~self.prefix.some => C10_Kept = C10_Stripped

\* The name has room for prefix_pattern followed by suffix_pattern.
C10_NoOverlap ==
  \/ ~self.prefix.some
  \/ Len(ToLowercase(env[idx].name))
       >= Len(PrefixPattern(self).v) + Len(SuffixPattern(self))

(* C10 as amended: a variable loaded with keep_prefix false is loaded with *)
(* keep_prefix true, and the converse holds when no prefix is configured   *)
(* or the lower-cased name is at least as long as prefix_pattern followed  *)
(* by suffix_pattern (the patterns do not overlap in it); full-pattern     *)
(* matches are the same under both settings.  For a variable               *)
(* prefix/suffix-matched under both settings, with a separator that is     *)
(* empty or one character long, the key with keep_prefix true is the       *)
(* separator-translated prefix_pattern followed by the key with            *)
(* keep_prefix false.                                                      *)
C10_KeepPrefixWithoutOverlap ==
  (Examined /\ ~IsEmpty(env[idx].value)) =>
    /\ C10_Loaded(C10_Stripped) => C10_Loaded(C10_Kept)
    /\ (C10_Loaded(C10_Kept) /\ C10_NoOverlap) => C10_Loaded(C10_Stripped)
    /\ (C10_Kept.cls = "full") <=> (C10_Stripped.cls = "full")
    /\ (C10_BothNested /\ self.prefix.some /\ Len(Separator(self)) <= 1) =>
         C10_Kept.key = Translate(self, PrefixPattern(self).v) \o C10_Stripped.key
    /\ ~self.prefix.some => C10_Kept = C10_Stripped

C10_Witness ==
  /\ Examined /\ pc = "done" /\ result.ok
  /\ self.keep_prefix /\ self.separator = Some(dot)
  /\ C10_BothNested /\ C10_NoOverlap
  /\ C10_Stripped.key = <<"b", ".", "a">>
  /\ DOMAIN result.map = {<<"c", ".", "b", ".", "a">>}

====
